---- MODULE Spec2Model ----
(***************************************************************************)
(* Native memory tracking, malloc side: services/mallocTracker.cpp.        *)
(*                                                                         *)
(* The specifications of this module:                                      *)
(*   CounterSpec      one MemoryCounter updated by several threads, every  *)
(*                    atomic access of allocate / deallocate /             *)
(*                    update_peak_count / update_peak_size a step of its   *)
(*                    own; CounterFairSpec adds fair scheduling;           *)
(*   Spec             the tracker: tracking level, MallocMemorySnapshot,   *)
(*                    MallocHeader of every block, call-site table;        *)
(*   FreeOnceSpec     the tracker with every block freed at most once;     *)
(*   DoubleFreeSpec   the tracker with blocks freed a second time;         *)
(*   CorruptSpec      the tracker with damaged canaries and footer bytes;  *)
(*   IntegritySpec    check_block_integrity() on damaged headers and on    *)
(*                    memory that holds no header;                         *)
(*   SnapshotSpec     the snapshot with arenas, totals, make_adjustment;   *)
(*   AccountingSpec   the tracker at levels summary and detail with        *)
(*                    several blocks in use at a time.                     *)
(* A header is read through a pointer. Where the pointer leads to memory   *)
(* that is not a constructed header of a block in use (never handed out,   *)
(* handed out at level minimal, freed, inside a block), the read gives any *)
(* bytes: the model draws them. Where the memory is not mapped, or not     *)
(* writable, the first access to it faults and the process ends with       *)
(* SIGSEGV: the model draws the access that faults.                        *)
(* The build modelled is the 64-bit debug build (ASSERT defined, _LP64     *)
(* defined): a failed assert and fatal() both end the process.             *)
(***************************************************************************)
EXTENDS Integers, FiniteSets, Sequences, TLC

(***************************************************************************)
(* Bounds of the model.                                                    *)
(***************************************************************************)
NumThreads == 2      \* threads working on the MemoryCounter
MaxOps == 3          \* record_allocate / record_free calls started in a run
MaxSize == 1         \* largest payload size requested
NumBlocks == 1       \* raw blocks the system allocator hands out (AccountingSpec: one more)
MaxArena == 1        \* cap on every arena counter (count and size)

Threads == 1..NumThreads
Sizes == 0..MaxSize
CounterSizes == {0, MaxSize}   \* the counter's callers: an empty and a non-empty payload

Max(a, b) == IF a >= b THEN a ELSE b

VARIABLES
  \* ---- CounterSpec: the MemoryCounter and its callers
  c_count,        \* MemoryCounter::_count
  c_size,         \* MemoryCounter::_size
  c_peak_count,   \* MemoryCounter::_peak_count
  c_peak_size,    \* MemoryCounter::_peak_size
  t_pc,           \* per thread: position in allocate / deallocate / update_peak_*
  t_sz,           \* per thread: argument sz of the call in progress
  t_cnt,          \* per thread: local cnt (allocate) = argument count (update_peak_count)
  t_sum,          \* per thread: local sum (allocate) = argument sz (update_peak_size)
  t_peak,         \* per thread: local peak_cnt / peak_sz
  g_pool,         \* history: completed allocations not yet freed, per size
  g_ops,          \* history: calls started
  g_net,          \* history: <<allocations - frees, bytes allocated - bytes freed>>
  g_max,          \* history: <<largest _count ever stored, largest _size ever stored>>
  g_raced         \* history, per thread: another thread has stored to the peak the
                  \* thread is working on since the thread last read it

cvars == <<c_count, c_size, c_peak_count, c_peak_size, t_pc, t_sz, t_cnt, t_sum,
           t_peak, g_pool, g_ops, g_net, g_max, g_raced>>

(***************************************************************************)
(* MemoryCounter, one atomic access per step.                              *)
(***************************************************************************)

\* MemoryCounter::MemoryCounter(): all four fields zero; no call in progress.
CounterInit ==
  /\ c_count = 0 /\ c_size = 0 /\ c_peak_count = 0 /\ c_peak_size = 0
  /\ t_pc = [t \in Threads |-> "idle"]
  /\ t_sz = [t \in Threads |-> 0]
  /\ t_cnt = [t \in Threads |-> 0]
  /\ t_sum = [t \in Threads |-> 0]
  /\ t_peak = [t \in Threads |-> 0]
  /\ g_pool = [s \in CounterSizes |-> 0]
  /\ g_ops = 0
  /\ g_net = <<0, 0>>
  /\ g_max = <<0, 0>>
  /\ g_raced = [t \in Threads |-> FALSE]

\* A thread enters MemoryCounter::allocate(sz).
call_allocate(t, sz) ==
  /\ t_pc[t] = "idle" /\ g_ops < MaxOps
  /\ t_pc' = [t_pc EXCEPT ![t] = "alloc_count"]
  /\ t_sz' = [t_sz EXCEPT ![t] = sz]
  /\ g_ops' = g_ops + 1
  /\ g_net' = <<g_net[1] + 1, g_net[2] + sz>>
  /\ UNCHANGED <<c_count, c_size, c_peak_count, c_peak_size, t_cnt, t_sum, t_peak,
                 g_pool, g_max,
                 g_raced>>

\* A thread enters MemoryCounter::deallocate(sz) for an allocation that completed.
call_deallocate(t, sz) ==
  /\ t_pc[t] = "idle" /\ g_ops < MaxOps /\ g_pool[sz] > 0
  /\ t_pc' = [t_pc EXCEPT ![t] = "free_count"]
  /\ t_sz' = [t_sz EXCEPT ![t] = sz]
  /\ g_pool' = [g_pool EXCEPT ![sz] = @ - 1]
  /\ g_ops' = g_ops + 1
  /\ g_net' = <<g_net[1] - 1, g_net[2] - sz>>
  /\ UNCHANGED <<c_count, c_size, c_peak_count, c_peak_size, t_cnt, t_sum, t_peak,
                 g_max,
                 g_raced>>

\* allocate: cnt = Atomic::add(&_count, 1).
allocate_add_count(t) ==
  /\ t_pc[t] = "alloc_count"
  /\ c_count' = c_count + 1
  /\ t_cnt' = [t_cnt EXCEPT ![t] = c_count + 1]
  /\ g_max' = <<Max(g_max[1], c_count + 1), g_max[2]>>
  /\ t_pc' = [t_pc EXCEPT ![t] = IF t_sz[t] > 0 THEN "alloc_size" ELSE "upc_load"]
  /\ UNCHANGED <<c_size, c_peak_count, c_peak_size, t_sz, t_sum, t_peak, g_pool,
                 g_ops, g_net,
                 g_raced>>

\* allocate: sum = Atomic::add(&_size, sz), then update_peak_size(sum).
allocate_add_size(t) ==
  /\ t_pc[t] = "alloc_size"
  /\ c_size' = c_size + t_sz[t]
  /\ t_sum' = [t_sum EXCEPT ![t] = c_size + t_sz[t]]
  /\ g_max' = <<g_max[1], Max(g_max[2], c_size + t_sz[t])>>
  /\ t_pc' = [t_pc EXCEPT ![t] = "ups_load"]
  /\ UNCHANGED <<c_count, c_peak_count, c_peak_size, t_sz, t_cnt, t_peak, g_pool,
                 g_ops, g_net,
                 g_raced>>

\* The call of allocate by thread t returns: the allocation is complete, the
\* locals of the call are gone.
allocate_return(t) ==
  /\ t_pc' = [t_pc EXCEPT ![t] = "idle"]
  /\ t_sz' = [t_sz EXCEPT ![t] = 0]
  /\ t_cnt' = [t_cnt EXCEPT ![t] = 0]
  /\ t_sum' = [t_sum EXCEPT ![t] = 0]
  /\ t_peak' = [t_peak EXCEPT ![t] = 0]
  /\ g_pool' = [g_pool EXCEPT ![t_sz[t]] = @ + 1]

\* The call of allocate by thread t goes on at position pc with local peak value p.
allocate_goes_on(t, pc, p) ==
  /\ t_pc' = [t_pc EXCEPT ![t] = pc]
  /\ t_peak' = [t_peak EXCEPT ![t] = p]
  /\ UNCHANGED <<t_sz, t_cnt, t_sum, g_pool>>

\* What a compare-and-swap by thread t does to the history g_raced: one that stores
\* (won) is a store the other threads at position pc have not seen; one that does
\* not store hands t the value now in the field.
Observed(t, won, pc) ==
  IF won
    THEN [u \in Threads |-> IF u # t /\ t_pc[u] = pc THEN TRUE ELSE g_raced[u]]
    ELSE [g_raced EXCEPT ![t] = FALSE]

\* update_peak_size, line 48: peak_sz = peak_size(), then the loop test.
update_peak_size_load(t) ==
  /\ t_pc[t] = "ups_load"
  /\ t_peak' = [t_peak EXCEPT ![t] = c_peak_size]
  /\ t_pc' = [t_pc EXCEPT ![t] = IF c_peak_size < t_sum[t] THEN "ups_cas" ELSE "upc_load"]
  /\ g_raced' = [g_raced EXCEPT ![t] = FALSE]
  /\ UNCHANGED <<c_count, c_size, c_peak_count, c_peak_size, t_sz, t_cnt, t_sum,
                 g_pool, g_ops, g_net, g_max>>

\* Faulty variant of update_peak_size_cas: the loop is left after one compare-and-swap,
\* won or lost.
update_peak_size_cas_once(t) ==
  /\ t_pc[t] = "ups_cas"
  /\ c_peak_size' = IF c_peak_size = t_peak[t] THEN t_sum[t] ELSE c_peak_size
  /\ t_peak' = [t_peak EXCEPT ![t] = c_peak_size]
  /\ t_pc' = [t_pc EXCEPT ![t] = "upc_load"]
  /\ g_raced' = Observed(t, c_peak_size = t_peak[t], "ups_cas")
  /\ UNCHANGED <<c_count, c_size, c_peak_count, t_sz, t_cnt, t_sum, g_pool, g_ops,
                 g_net, g_max>>

\* update_peak_size, lines 50-53: one pass of the loop body, then the loop test.
update_peak_size_cas(t) ==
  /\ t_pc[t] = "ups_cas"
  /\ LET old_sz == c_peak_size
         peak_sz == IF old_sz # t_peak[t] THEN old_sz ELSE t_peak[t]
     IN /\ c_peak_size' = IF old_sz = t_peak[t] THEN t_sum[t] ELSE c_peak_size
        /\ t_peak' = [t_peak EXCEPT ![t] = peak_sz]
        /\ t_pc' = [t_pc EXCEPT ![t] = IF peak_sz < t_sum[t] THEN "ups_cas" ELSE "upc_load"]
        /\ g_raced' = Observed(t, old_sz = t_peak[t], "ups_cas")
  /\ UNCHANGED <<c_count, c_size, c_peak_count, t_sz, t_cnt, t_sum, g_pool, g_ops,
                 g_net, g_max>>

\* update_peak_count, line 38: peak_cnt = peak_count(), then the loop test.
update_peak_count_load(t) ==
  /\ t_pc[t] = "upc_load"
  /\ IF c_peak_count < t_cnt[t]
       THEN allocate_goes_on(t, "upc_cas", c_peak_count)
       ELSE allocate_return(t)
  /\ g_raced' = [g_raced EXCEPT ![t] = FALSE]
  /\ UNCHANGED <<c_count, c_size, c_peak_count, c_peak_size, g_ops, g_net, g_max>>

\* Faulty variant of update_peak_count_cas: the loop gives up after a lost compare-and-swap.
update_peak_count_cas_noretry(t) ==
  /\ t_pc[t] = "upc_cas"
  /\ c_peak_count' = IF c_peak_count = t_peak[t] THEN t_cnt[t] ELSE c_peak_count
  /\ g_raced' = Observed(t, c_peak_count = t_peak[t], "upc_cas")
  /\ allocate_return(t)
  /\ UNCHANGED <<c_count, c_size, c_peak_size, g_ops, g_net, g_max>>

\* Faulty variant of update_peak_count_cas: a plain store in place of the
\* compare-and-swap.
update_peak_count_cas_store(t) ==
  /\ t_pc[t] = "upc_cas"
  /\ c_peak_count' = t_cnt[t]
  /\ g_raced' = Observed(t, TRUE, "upc_cas")
  /\ allocate_return(t)
  /\ UNCHANGED <<c_count, c_size, c_peak_size, g_ops, g_net, g_max>>

\* update_peak_count, lines 40-43: one pass of the loop body, then the loop test.
update_peak_count_cas(t) ==
  /\ t_pc[t] = "upc_cas"
  /\ LET old_cnt == c_peak_count
         peak_cnt == IF old_cnt # t_peak[t] THEN old_cnt ELSE t_peak[t]
     IN /\ c_peak_count' = IF old_cnt = t_peak[t] THEN t_cnt[t] ELSE c_peak_count
        /\ g_raced' = Observed(t, old_cnt = t_peak[t], "upc_cas")
        /\ IF peak_cnt < t_cnt[t]
             THEN allocate_goes_on(t, "upc_cas", peak_cnt)
             ELSE allocate_return(t)
  /\ UNCHANGED <<c_count, c_size, c_peak_size, g_ops, g_net, g_max>>

\* deallocate: Atomic::dec(&_count).
deallocate_dec_count(t) ==
  /\ t_pc[t] = "free_count"
  /\ c_count' = c_count - 1
  /\ t_pc' = [t_pc EXCEPT ![t] = IF t_sz[t] > 0 THEN "free_size" ELSE "idle"]
  /\ UNCHANGED <<c_size, c_peak_count, c_peak_size, t_sz, t_cnt, t_sum, t_peak,
                 g_pool, g_ops, g_net, g_max,
                 g_raced>>

\* deallocate: Atomic::sub(&_size, sz).
deallocate_sub_size(t) ==
  /\ t_pc[t] = "free_size"
  /\ c_size' = c_size - t_sz[t]
  /\ t_pc' = [t_pc EXCEPT ![t] = "idle"]
  /\ t_sz' = [t_sz EXCEPT ![t] = 0]
  /\ UNCHANGED <<c_count, c_peak_count, c_peak_size, t_cnt, t_sum, t_peak,
                 g_pool, g_ops, g_net, g_max,
                 g_raced>>


(***************************************************************************)
(* The tracker.                                                            *)
(***************************************************************************)

\* NMT_TrackingLevel, in its order: off < minimal < summary < detail.
NMT_off == 0
NMT_minimal == 1
NMT_summary == 2
NMT_detail == 3
Levels == NMT_off..NMT_detail

\* Memory categories (MEMFLAGS), as indexes NMTUtil::flag_to_index gives them.
mt_number_of_types == 2
mtChunk == 1
Flags == 0..(mt_number_of_types - 1)

\* Addresses. A MallocHeader takes sizeof(MallocHeader) bytes in front of the payload.
NULL == 0
K == 1024
sizeof_MallocHeader == 16
sizeof_uint64_t == 8
sizeof_size_t == 8
RawBlocks == {K * b : b \in 1..NumBlocks}
\* The memory modelled: the raw blocks and one more block, which only the
\* specification of the accounting over several blocks hands out.
AllBlocks == {K * b : b \in 1..(NumBlocks + 1)}

\* Canary patterns of MallocHeader.
header_canary_life_mark == 59806
header_canary_dead_mark == 55709
footer_canary_life_mark == 233
footer_canary_dead_mark == 217

\* Sizes at or above this are taken for corruption. The payload sizes of the
\* model end at MaxSize, so the ceiling is placed right above them.
max_reasonable_malloc_size == MaxSize + 1

\* Marks a field of memory whose content is not known: no constructor has written
\* it since the block came from the allocator. It is no value a read can give.
Uninit == -1

\* The accesses release() makes through the MallocHeader pointer to memory that
\* may be unmapped or read-only, in the order it makes them: the reads of
\* check_block_integrity() (_canary, _size, the footer byte behind the payload)
\* and the writes of mark_block_as_dead(). The field fault of a header read names
\* the first of them that faults.
NoFault == "none"
ReadFaults == {"read _canary", "read _size", "read footer"}
WriteFaults == {"write _canary", "write footer"}

\* Call stacks, and the (bucket, position) the call-site table files each under.
Stacks == {1, 2}
NoStack == 3      \* filed under a (bucket, position) at which the table holds no site
bucket_of(stack) == (stack + 1) \div 2
pos_of(stack) == (stack + 1) % 2
stack_at(bucket, pos) == 2 * bucket + pos - 1

NoOutcome == "running"

VARIABLES
  \* ---- Spec: the tracker
  level,            \* MemTracker::tracking_level()
  snap_malloc,      \* MallocMemorySnapshot::_malloc[i], the malloc counter: count, size
  snap_arena,       \* MallocMemorySnapshot::_malloc[i], the arena counter: count, size
  tracking_header,  \* MallocMemorySnapshot::_tracking_header: count, size
  heap,             \* per raw block: the MallocHeader and footer byte stored in it
  site_table,       \* MallocSiteTable: up, and live allocations per call stack
  outcome,          \* "running", or the assertion / fatal error / signal that ended the process
  last              \* the last call made: its arguments, result and table contact

tvars == <<level, snap_malloc, snap_arena, tracking_header, heap, site_table, outcome, last>>

vars == <<c_count, c_size, c_peak_count, c_peak_size, t_pc, t_sz, t_cnt, t_sum,
          t_peak, g_pool, g_ops, g_net, g_max, g_raced,
          level, snap_malloc, snap_arena, tracking_header, heap, site_table, outcome, last>>

ZeroCounter == [count |-> 0, size |-> 0]

\* Memory of a raw block before the allocator has handed it out. Three fields are
\* not memory but the history of the block: alloc ("unalloc", "live" after
\* record_malloc returned its pointer, "freed" after record_free returned), user,
\* the pointer record_malloc returned for it, and site, for a block in use, the
\* <<bucket, position>> the call-site table returned when the block was allocated
\* (<<>> if it was not asked or refused). The field fault belongs to a header as
\* a call reads it: memory the tracker owns is mapped and writable.
FreshBlock == [alloc |-> "unalloc", user |-> NULL, site |-> <<>>, size |-> Uninit, flags |-> Uninit,
               bucket |-> Uninit, pos |-> Uninit, canary |-> Uninit, footer |-> Uninit,
               fault |-> NoFault]

NoCall == [op |-> "none", a1 |-> 0, a2 |-> 0, a3 |-> 0, ret |-> 0, tcall |-> {}, targ |-> <<>>,
           check |-> "none", trace |-> <<>>, fault |-> NoFault]

\* MallocTracker::initialize(lvl): the summary is zeroed for lvl >= summary (and is
\* static zeroed storage below it), the call-site table comes up for lvl = detail.
TrackerInit ==
  /\ level \in Levels
  /\ snap_malloc = [f \in Flags |-> ZeroCounter]
  /\ snap_arena = [f \in Flags |-> ZeroCounter]
  /\ tracking_header = ZeroCounter
  /\ heap = [a \in AllBlocks |-> FreshBlock]
  /\ site_table = [up |-> (level = NMT_detail), n |-> [s \in Stacks |-> 0]]
  /\ outcome = NoOutcome
  /\ last = NoCall

(***************************************************************************)
(* MemoryCounter as the tracker uses it (one thread, so each call is one   *)
(* step). A failed assert is reported in the field failed.                 *)
(***************************************************************************)
allocate(c, sz) ==
  [failed |-> "none", c |-> [count |-> c.count + 1, size |-> c.size + sz]]

deallocate(c, sz) ==
  IF c.count <= 0 THEN [failed |-> "assert: Nothing allocated yet", c |-> c]
  ELSE IF c.size < sz THEN [failed |-> "assert: deallocation > allocated", c |-> c]
  ELSE [failed |-> "none", c |-> [count |-> c.count - 1, size |-> c.size - sz]]

\* MallocMemorySummary::record_free(size, flag) on the malloc counters m: the counter
\* of the category is found through NMTUtil::flag_to_index, which asserts that the
\* index is one of a category; the counter then takes deallocate(size).
MallocMemorySummary_record_free(m, size, flag) ==
  IF flag \notin Flags THEN [failed |-> "assert: Index out of bounds", m |-> m]
  ELSE LET d == deallocate(m[flag], size)
       IN [failed |-> d.failed, m |-> [m EXCEPT ![flag] = d.c]]

resize(c, sz) ==
  IF sz = 0 THEN [failed |-> "none", c |-> c]
  ELSE IF ~(sz >= 0 \/ c.size >= -sz) THEN [failed |-> "assert: Must be", c |-> c]
  ELSE [failed |-> "none", c |-> [c EXCEPT !.size = @ + sz]]

(***************************************************************************)
(* MallocMemorySnapshot: the three totals and make_adjustment.             *)
(***************************************************************************)
RECURSIVE total_count_loop(_, _, _)
total_count_loop(m, index, amount) ==
  IF index < mt_number_of_types
    THEN total_count_loop(m, index + 1, amount + m[index].count)
    ELSE amount

\* size_t MallocMemorySnapshot::total_count() const
total_count(m) == total_count_loop(m, 0, 0)

RECURSIVE total_arena_loop(_, _, _)
total_arena_loop(ar, index, amount) ==
  IF index < mt_number_of_types
    THEN total_arena_loop(ar, index + 1, amount + ar[index].size)
    ELSE amount

\* size_t MallocMemorySnapshot::total_arena() const
total_arena(ar) == total_arena_loop(ar, 0, 0)

RECURSIVE total_loop(_, _, _)
total_loop(m, index, amount) ==
  IF index < mt_number_of_types
    THEN total_loop(m, index + 1, amount + m[index].size)
    ELSE amount

\* Faulty variant of total: the header overhead is left out.
total_without_header(m, th, ar) == total_loop(m, 0, 0) + total_arena(ar)

\* size_t MallocMemorySnapshot::total() const
total(m, th, ar) == total_loop(m, 0, 0) + th.size + total_arena(ar)


(***************************************************************************)
(* Handlers are written as operators from a tracker state s to the tracker *)
(* state after the call; s carries, besides the variables, what the call   *)
(* did to the call-site table (tcall, targ) and what check_block_integrity *)
(* reported (check), in trace the calls the handler made on the summary,   *)
(* the call-site table and the header, in the order it made them, and in   *)
(* fault the access that faults in the memory the call's pointer leads to. *)
(* A state whose outcome is not "running" is final: the rest of the        *)
(* handler is skipped.                                                     *)
(***************************************************************************)
Cur ==
  [level |-> level, m |-> snap_malloc, ar |-> snap_arena, th |-> tracking_header,
   heap |-> heap, st |-> site_table, outcome |-> outcome,
   tcall |-> {}, targ |-> <<>>, check |-> "none", trace |-> <<>>, fault |-> NoFault]

Halt(s, why) == [s EXCEPT !.outcome = why]

\* ---- MallocSiteTable (external collaborator)

\* MallocSiteTable::allocation_at: ok is whether the table could take the entry.
allocation_at(s, stack, size, ok) ==
  [s EXCEPT !.tcall = @ \cup {"allocation_at"},
            !.trace = Append(@, "allocation_at"),
            !.targ = <<size, stack, ok>>,
            !.st = IF ok THEN [@ EXCEPT !.n[stack] = @ + 1] ELSE @]

\* MallocSiteTable::deallocation_at(size, bucket_idx, pos_idx)
deallocation_at(s, size, bucket, pos) ==
  LET stack == stack_at(bucket, pos)
  IN [s EXCEPT !.tcall = @ \cup {"deallocation_at"},
               !.trace = Append(@, "deallocation_at"),
               !.targ = <<size, bucket, pos>>,
               !.st = IF stack \in Stacks /\ @.n[stack] > 0
                        THEN [@ EXCEPT !.n[stack] = @ - 1] ELSE @]

\* MallocSiteTable::shutdown()
shutdown(s) ==
  [s EXCEPT !.tcall = @ \cup {"shutdown"},
            !.trace = Append(@, "shutdown"),
            !.st = [up |-> FALSE, n |-> [k \in Stacks |-> 0]]]

\* ---- MallocTracker::transition

\* Faulty variant of transition: the assertion on from = minimal is missing.
transition_from_minimal(from, to) ==
  IF from = NMT_off THEN [failed |-> "assert: Can not transition from off state", shutdown |-> FALSE]
  ELSE IF to = NMT_off THEN [failed |-> "assert: Can not transition to off state", shutdown |-> FALSE]
  ELSE IF from = NMT_detail
    THEN IF ~(to = NMT_minimal \/ to = NMT_summary)
           THEN [failed |-> "assert: Just check", shutdown |-> FALSE]
           ELSE [failed |-> "none", shutdown |-> TRUE]
    ELSE [failed |-> "none", shutdown |-> FALSE]

\* Faulty variant of transition: the call-site table is shut down on the way out of
\* summary as well.
transition_always_shuts_down(from, to) ==
  IF from = NMT_off THEN [failed |-> "assert: Can not transition from off state", shutdown |-> FALSE]
  ELSE IF to = NMT_off THEN [failed |-> "assert: Can not transition to off state", shutdown |-> FALSE]
  ELSE IF from = NMT_minimal THEN [failed |-> "assert: cannot transition from minimal state", shutdown |-> FALSE]
  ELSE IF from = NMT_detail /\ ~(to = NMT_minimal \/ to = NMT_summary)
    THEN [failed |-> "assert: Just check", shutdown |-> FALSE]
  ELSE [failed |-> "none", shutdown |-> TRUE]

\* bool MallocTracker::transition(from, to): the assertion that fails, if one does,
\* and whether MallocSiteTable::shutdown() is called. It returns true otherwise.
transition(from, to) ==
  IF from = NMT_off THEN [failed |-> "assert: Can not transition from off state", shutdown |-> FALSE]
  ELSE IF to = NMT_off THEN [failed |-> "assert: Can not transition to off state", shutdown |-> FALSE]
  ELSE IF from = NMT_minimal THEN [failed |-> "assert: cannot transition from minimal state", shutdown |-> FALSE]
  ELSE IF from = NMT_detail
    THEN IF ~(to = NMT_minimal \/ to = NMT_summary)
           THEN [failed |-> "assert: Just check", shutdown |-> FALSE]
           ELSE [failed |-> "none", shutdown |-> TRUE]
    ELSE [failed |-> "none", shutdown |-> FALSE]

\* MemTracker::transition_to(to): hands the change to MallocTracker::transition with
\* the current level as from; the level itself is only ever lowered.
MemTracker_transition_to(s, to) ==
  LET r == transition(s.level, to)
      s1 == IF r.shutdown THEN shutdown(s) ELSE s
  IN IF r.failed # "none" THEN Halt(s, r.failed)
     ELSE IF to < s.level THEN [s1 EXCEPT !.level = to]
     ELSE s1

\* ---- MallocHeader

\* Faulty variant of check_block_integrity: the footer byte is not looked at.
check_block_integrity_no_footer(this, h) ==
  IF this < K THEN "fatal: invalid block address"
  ELSE IF this % sizeof_uint64_t # 0 THEN "fatal: block address is unaligned"
  ELSE IF h.fault = "read _canary" THEN "signal: SIGSEGV"
  ELSE IF h.canary # header_canary_life_mark THEN "fatal: header canary broken."
  ELSE IF h.fault = "read _size" THEN "signal: SIGSEGV"
  ELSE IF h.size >= max_reasonable_malloc_size
    THEN "fatal: header looks invalid (weirdly large block size)"
  ELSE "ok"

\* Faulty variant of check_block_integrity: the footer byte is looked at before the size.
check_block_integrity_footer_first(this, h) ==
  IF this < K THEN "fatal: invalid block address"
  ELSE IF this % sizeof_uint64_t # 0 THEN "fatal: block address is unaligned"
  ELSE IF h.fault = "read _canary" THEN "signal: SIGSEGV"
  ELSE IF h.canary # header_canary_life_mark THEN "fatal: header canary broken."
  ELSE IF h.fault \in {"read _size", "read footer"} THEN "signal: SIGSEGV"
  ELSE IF h.footer # footer_canary_life_mark THEN "fatal: footer canary broken"
  ELSE IF h.size >= max_reasonable_malloc_size
    THEN "fatal: header looks invalid (weirdly large block size)"
  ELSE "ok"

\* void MallocHeader::check_block_integrity() const, for the header h read at
\* address this: "ok", or the fatal error raised, or the signal that ends the
\* process when one of its reads through this faults: that of _canary (line
\* 180), of _size (194) or of the footer byte at this + 16 + _size (200).
check_block_integrity(this, h) ==
  IF this < K THEN "fatal: invalid block address"
  ELSE IF this % sizeof_uint64_t # 0 THEN "fatal: block address is unaligned"
  ELSE IF h.fault = "read _canary" THEN "signal: SIGSEGV"
  ELSE IF h.canary # header_canary_life_mark THEN "fatal: header canary broken."
  ELSE IF h.fault = "read _size" THEN "signal: SIGSEGV"
  ELSE IF h.size >= max_reasonable_malloc_size
    THEN "fatal: header looks invalid (weirdly large block size)"
  ELSE IF h.fault = "read footer" THEN "signal: SIGSEGV"
  ELSE IF h.footer # footer_canary_life_mark THEN "fatal: footer canary broken"
  ELSE "ok"

\* Faulty variant of mark_block_as_dead: the header canary is left alive.
mark_block_as_dead_footer_only(h) == [h EXCEPT !.footer = footer_canary_dead_mark]

\* Faulty variant of mark_block_as_dead: the footer byte is left alive.
mark_block_as_dead_canary_only(h) == [h EXCEPT !.canary = header_canary_dead_mark]

\* void MallocHeader::mark_block_as_dead(): the header after the writes made. A
\* write that faults, and the one behind it, is not made.
mark_block_as_dead(h) ==
  IF h.fault = "write _canary" THEN h
  ELSE IF h.fault = "write footer" THEN [h EXCEPT !.canary = header_canary_dead_mark]
  ELSE [h EXCEPT !.canary = header_canary_dead_mark, !.footer = footer_canary_dead_mark]

\* Faulty variant of release: the header overhead is not given back.
release_keeps_header(s, a) ==
  IF s.level <= NMT_minimal THEN s
  ELSE
    LET h == s.heap[a]
        chk == check_block_integrity(a, h)
    IN IF chk # "ok" THEN [Halt(s, chk) EXCEPT !.check = chk]
       ELSE
         LET d1 == MallocMemorySummary_record_free(s.m, h.size, h.flags)
             s1 == [s EXCEPT !.check = "ok", !.m = d1.m]
             s3 == IF s1.level = NMT_detail
                     THEN deallocation_at(s1, h.size, h.bucket, h.pos) ELSE s1
         IN IF d1.failed # "none" THEN Halt([s EXCEPT !.check = "ok"], d1.failed)
            ELSE [s3 EXCEPT !.heap[a] = mark_block_as_dead(@)]

\* Faulty variant of release: the counters are lowered before the block is checked.
release_books_first(s, a) ==
  IF s.level <= NMT_minimal THEN s
  ELSE
    LET h == s.heap[a]
        chk == check_block_integrity(a, h)
        d1 == MallocMemorySummary_record_free(
                s.m, IF h.flags \in Flags /\ h.size >= 0 /\ h.size <= s.m[h.flags].size
                       THEN h.size ELSE 0, h.flags)
        d2 == deallocate(s.th, sizeof_MallocHeader)
        s1 == [s EXCEPT !.m = d1.m, !.th = d2.c,
                        !.trace = @ \o <<"record_free", "record_free_malloc_header",
                                         "check_block_integrity">>,
                        !.check = chk]
        s3 == IF s1.level = NMT_detail
                THEN deallocation_at(s1, h.size, h.bucket, h.pos) ELSE s1
    IN IF chk # "ok" THEN Halt(s1, chk)
       ELSE [s3 EXCEPT !.heap[a] = mark_block_as_dead(@),
                       !.trace = Append(@, "mark_block_as_dead")]

\* Faulty variant of release: the tracking level is not looked at on entry.
release_at_any_level(s, a) ==
  LET h == s.heap[a]
      chk == check_block_integrity(a, h)
      s0 == [s EXCEPT !.check = chk, !.trace = Append(@, "check_block_integrity")]
  IN IF chk # "ok" THEN Halt(s0, chk)
     ELSE
       LET d1 == MallocMemorySummary_record_free(s0.m, h.size, h.flags)
           s1 == [s0 EXCEPT !.m = d1.m, !.trace = Append(@, "record_free")]
           d2 == deallocate(s1.th, sizeof_MallocHeader)
           s2 == [s1 EXCEPT !.th = d2.c,
                            !.trace = Append(@, "record_free_malloc_header")]
           s3 == IF s2.level = NMT_detail
                   THEN deallocation_at(s2, h.size, h.bucket, h.pos) ELSE s2
       IN IF d1.failed # "none" THEN Halt(s0, d1.failed)
          ELSE IF d2.failed # "none" THEN Halt(s1, d2.failed)
          ELSE LET s4 == [s3 EXCEPT !.heap[a] = mark_block_as_dead(@),
                                    !.trace = Append(@, "mark_block_as_dead")]
               IN IF h.fault \in WriteFaults THEN Halt(s4, "signal: SIGSEGV") ELSE s4

\* Faulty variant of release: the call-site table is told at level summary too.
release_unregisters_at_summary(s, a) ==
  IF s.level <= NMT_minimal THEN s
  ELSE
    LET h == s.heap[a]
        chk == check_block_integrity(a, h)
        s0 == [s EXCEPT !.check = chk, !.trace = Append(@, "check_block_integrity")]
    IN IF chk # "ok" THEN Halt(s0, chk)
       ELSE
         LET d1 == MallocMemorySummary_record_free(s0.m, h.size, h.flags)
             s1 == [s0 EXCEPT !.m = d1.m, !.trace = Append(@, "record_free")]
             d2 == deallocate(s1.th, sizeof_MallocHeader)
             s2 == [s1 EXCEPT !.th = d2.c,
                              !.trace = Append(@, "record_free_malloc_header")]
             s3 == deallocation_at(s2, h.size, h.bucket, h.pos)
         IN IF d1.failed # "none" THEN Halt(s0, d1.failed)
            ELSE IF d2.failed # "none" THEN Halt(s1, d2.failed)
            ELSE LET s4 == [s3 EXCEPT !.heap[a] = mark_block_as_dead(@),
                                      !.trace = Append(@, "mark_block_as_dead")]
                 IN IF h.fault \in WriteFaults THEN Halt(s4, "signal: SIGSEGV") ELSE s4

\* Faulty variant of release: the payload is taken off the category next to the
\* block's.
release_books_next_category(s, a) ==
  IF s.level <= NMT_minimal THEN s
  ELSE
    LET h == s.heap[a]
        chk == check_block_integrity(a, h)
        s0 == [s EXCEPT !.check = chk, !.trace = Append(@, "check_block_integrity")]
    IN IF chk # "ok" THEN Halt(s0, chk)
       ELSE
         LET d1 == MallocMemorySummary_record_free(
                     s0.m, h.size, (h.flags + 1) % mt_number_of_types)
             s1 == [s0 EXCEPT !.m = d1.m, !.trace = Append(@, "record_free")]
             d2 == deallocate(s1.th, sizeof_MallocHeader)
             s2 == [s1 EXCEPT !.th = d2.c,
                              !.trace = Append(@, "record_free_malloc_header")]
             s3 == IF s2.level = NMT_detail
                     THEN deallocation_at(s2, h.size, h.bucket, h.pos) ELSE s2
         IN IF d1.failed # "none" THEN Halt(s0, d1.failed)
            ELSE IF d2.failed # "none" THEN Halt(s1, d2.failed)
            ELSE LET s4 == [s3 EXCEPT !.heap[a] = mark_block_as_dead(@),
                                      !.trace = Append(@, "mark_block_as_dead")]
                 IN IF h.fault \in WriteFaults THEN Halt(s4, "signal: SIGSEGV") ELSE s4

\* void MallocHeader::release(), for the header read at raw block a. Past the
\* check and the counters, the writes of mark_block_as_dead() (lines 110-112) may
\* fault where the memory is not the tracker's.
release(s, a) ==
  IF s.level <= NMT_minimal THEN s
  ELSE
    LET h == s.heap[a]
        chk == check_block_integrity(a, h)
        s0 == [s EXCEPT !.check = chk, !.trace = Append(@, "check_block_integrity")]
    IN IF chk # "ok" THEN Halt(s0, chk)
       ELSE
         LET d1 == MallocMemorySummary_record_free(s0.m, h.size, h.flags)
             s1 == [s0 EXCEPT !.m = d1.m, !.trace = Append(@, "record_free")]
             d2 == deallocate(s1.th, sizeof_MallocHeader)
             s2 == [s1 EXCEPT !.th = d2.c,
                              !.trace = Append(@, "record_free_malloc_header")]
             s3 == IF s2.level = NMT_detail
                     THEN deallocation_at(s2, h.size, h.bucket, h.pos) ELSE s2
         IN IF d1.failed # "none" THEN Halt(s0, d1.failed)
            ELSE IF d2.failed # "none" THEN Halt(s1, d2.failed)
            ELSE LET s4 == [s3 EXCEPT !.heap[a] = mark_block_as_dead(@),
                                      !.trace = Append(@, "mark_block_as_dead")]
                 IN IF h.fault \in WriteFaults THEN Halt(s4, "signal: SIGSEGV") ELSE s4

\* Faulty variant of record_malloc_site: a failed registration is only reported.
record_malloc_site_no_downgrade(s, stack, size, ok) ==
  [s |-> allocation_at(s, stack, size, ok), ret |-> ok,
   bucket_idx |-> IF ok THEN bucket_of(stack) ELSE Uninit,
   pos_idx |-> IF ok THEN pos_of(stack) ELSE Uninit]

\* bool MallocHeader::record_malloc_site(stack, size, &bucket_idx, &pos_idx, flags):
\* the state after the call, with the result in ret, bucket_idx, pos_idx.
record_malloc_site(s, stack, size, ok) ==
  LET s1 == allocation_at(s, stack, size, ok)
      ret == ok
      s2 == IF ~ret THEN MemTracker_transition_to(s1, NMT_summary) ELSE s1
  IN [s |-> s2, ret |-> ret,
      bucket_idx |-> IF ok THEN bucket_of(stack) ELSE Uninit,
      pos_idx |-> IF ok THEN pos_of(stack) ELSE Uninit]

\* MallocHeader::MallocHeader(size, flags, stack, level), placed at raw block a.
MallocHeader_new(s, a, size, flags, stack, lvl, ok) ==
  IF ~(size < max_reasonable_malloc_size) THEN Halt(s, "assert: Too large allocation size?")
  ELSE IF lvl = NMT_minimal THEN s
  ELSE
    LET site == IF lvl = NMT_detail THEN record_malloc_site(s, stack, size, ok)
                ELSE [s |-> s, ret |-> FALSE, bucket_idx |-> Uninit, pos_idx |-> Uninit]
        s1 == site.s
        h == [s1.heap[a] EXCEPT
                !.flags = flags, !.size = size,
                !.bucket = IF site.ret THEN site.bucket_idx ELSE @,
                !.pos = IF site.ret THEN site.pos_idx ELSE @,
                !.canary = header_canary_life_mark,
                !.footer = footer_canary_life_mark]
    IN IF s1.outcome # NoOutcome THEN s1
       ELSE [s1 EXCEPT !.heap[a] = h,
                       !.m[flags] = allocate(@, size).c,
                       !.th = allocate(@, sizeof_MallocHeader).c]

\* ---- MallocTracker

\* record_malloc past its test for NULL (lines 258-275).
record_malloc_block(s, malloc_base, size, flags, stack, lvl, ok) ==
  LET s1 == MallocHeader_new(s, malloc_base, size, flags, stack, lvl, ok)
      memblock == malloc_base + sizeof_MallocHeader
  IN IF s1.outcome # NoOutcome THEN [s |-> s1, ret |-> NULL]
     ELSE IF memblock % (sizeof_size_t * 2) # 0
       THEN [s |-> Halt(s1, "assert: Alignment check"), ret |-> NULL]
     ELSE IF lvl > NMT_minimal /\ s1.heap[malloc_base].size # size
       THEN [s |-> Halt(s1, "assert: Wrong size"), ret |-> NULL]
     ELSE IF lvl > NMT_minimal /\ s1.heap[malloc_base].flags # flags
       THEN [s |-> Halt(s1, "assert: Wrong flags"), ret |-> NULL]
     ELSE [s |-> s1, ret |-> memblock]

\* Faulty variant of record_malloc: the header overhead is booked before the test for NULL.
record_malloc_books_first(s, malloc_base, size, flags, stack, lvl, ok) ==
  IF lvl = NMT_off THEN [s |-> Halt(s, "assert: precondition"), ret |-> NULL]
  ELSE IF malloc_base = NULL
    THEN [s |-> [s EXCEPT !.th = allocate(@, sizeof_MallocHeader).c], ret |-> NULL]
  ELSE record_malloc_block(s, malloc_base, size, flags, stack, lvl, ok)

\* void* MallocTracker::record_malloc(malloc_base, size, flags, stack, level):
\* the state after the call and the pointer returned.
record_malloc(s, malloc_base, size, flags, stack, lvl, ok) ==
  IF lvl = NMT_off THEN [s |-> Halt(s, "assert: precondition"), ret |-> NULL]
  ELSE IF malloc_base = NULL THEN [s |-> s, ret |-> NULL]
  ELSE record_malloc_block(s, malloc_base, size, flags, stack, lvl, ok)

\* MallocTracker::malloc_header(memblock)
malloc_header(memblock) == memblock - sizeof_MallocHeader

\* Faulty variant of record_free: the user pointer is returned instead of the raw block.
record_free_returns_memblock(s, memblock) ==
  IF ~(s.level # NMT_off /\ memblock # NULL)
    THEN [s |-> Halt(s, "assert: precondition"), ret |-> NULL]
    ELSE [s |-> release(s, malloc_header(memblock)), ret |-> memblock]

\* void* MallocTracker::record_free(memblock)
record_free(s, memblock) ==
  IF ~(s.level # NMT_off /\ memblock # NULL)
    THEN [s |-> Halt(s, "assert: precondition"), ret |-> NULL]
    ELSE LET header == malloc_header(memblock)
         IN [s |-> release(s, header), ret |-> header]

\* Faulty variant of make_adjustment: the flag is taken for the index, and the arena bytes
\* are taken off the category in front of the chunk category.
make_adjustment_wrong_index(s) ==
  LET arena_size == total_arena(s.ar)
      chunk_idx == mtChunk - 1
      d == deallocate(s.m[chunk_idx], arena_size)
  IN IF d.failed # "none" THEN Halt(s, d.failed)
     ELSE [s EXCEPT !.m[chunk_idx] = d.c]

\* void MallocMemorySnapshot::make_adjustment()
make_adjustment(s) ==
  LET arena_size == total_arena(s.ar)
      chunk_idx == mtChunk
      d == deallocate(s.m[chunk_idx], arena_size)
  IN IF d.failed # "none" THEN Halt(s, d.failed)
     ELSE [s EXCEPT !.m[chunk_idx] = d.c]


(***************************************************************************)
(* Actions of the tracker: one per call a collaborator can make.           *)
(***************************************************************************)
Commit(s, op, a1, a2, a3, ret) ==
  /\ level' = s.level
  /\ snap_malloc' = s.m
  /\ snap_arena' = s.ar
  /\ tracking_header' = s.th
  /\ heap' = s.heap
  /\ site_table' = s.st
  /\ outcome' = s.outcome
  /\ last' = [op |-> op, a1 |-> a1, a2 |-> a2, a3 |-> a3, ret |-> ret,
              tcall |-> s.tcall, targ |-> s.targ, check |-> s.check, trace |-> s.trace,
              fault |-> s.fault]
  /\ UNCHANGED cvars

\* The allocator wrapper got raw (NULL, or a block not in use) from the system
\* allocator and calls record_malloc with the current tracking level. What the
\* block holds when it comes from the allocator is not known: its fields start
\* out as not written. The call stack, and whether the call-site table takes the
\* entry, are drawn only where they are looked at: at level detail.
RecordMalloc(raw, size, flags, stack, ok) ==
  /\ outcome = NoOutcome
  /\ level = NMT_detail \/ (stack = 1 /\ ok)
  /\ raw = NULL \/ (raw \in AllBlocks /\ heap[raw].alloc # "live")
  /\ LET r == record_malloc(IF raw = NULL THEN Cur ELSE [Cur EXCEPT !.heap[raw] = FreshBlock],
                            raw, size, flags, stack, level, ok)
         s == IF r.ret # NULL
                THEN [r.s EXCEPT !.heap[raw].alloc = "live", !.heap[raw].user = r.ret,
                                 !.heap[raw].site =
                                    IF "allocation_at" \in r.s.tcall /\ r.s.targ[3]
                                      THEN <<bucket_of(r.s.targ[2]), pos_of(r.s.targ[2])>>
                                      ELSE <<>>]
                ELSE r.s
     IN Commit(s, "record_malloc", raw, size, flags, r.ret)

\* What a reader finds where the tracker has no header of its own: any bytes, in
\* memory of which any part may be unmapped or read-only. The fields are read in
\* the order header canary, size, footer byte and, by release() past the check,
\* category and site indices, and canary and footer byte are then written; the
\* values are drawn over what the model tells apart, and a field behind the
\* access that ends the process is not read and stays as in base. The category
\* byte may be that of no category (mt_number_of_types stands for all such
\* bytes), the site indices those of no site of the table (NoStack). faults are
\* the accesses that can fault.
StaleBytes(base, faults) ==
  LET alive == [base EXCEPT !.canary = header_canary_life_mark]
      sized == {[alive EXCEPT !.size = sz] : sz \in Sizes}
      intact == {[h EXCEPT !.footer = footer_canary_life_mark] : h \in sized}
  IN {[base EXCEPT !.fault = f] : f \in faults \cap {"read _canary"}}
       \cup {[base EXCEPT !.canary = header_canary_dead_mark]}
       \cup {[alive EXCEPT !.fault = f] : f \in faults \cap {"read _size"}}
       \cup {[alive EXCEPT !.size = max_reasonable_malloc_size]}
       \cup {[h EXCEPT !.fault = f] : h \in sized, f \in faults \cap {"read footer"}}
       \cup {[h EXCEPT !.footer = footer_canary_dead_mark] : h \in sized}
       \cup {[h EXCEPT !.flags = mt_number_of_types] : h \in intact}
       \cup {[h EXCEPT !.flags = f, !.bucket = bucket_of(st), !.pos = pos_of(st),
                       !.fault = w] :
               h \in intact, f \in Flags, st \in Stacks \cup {NoStack},
               w \in {NoFault} \cup (faults \cap WriteFaults)}

\* The headers a read through the MallocHeader pointer this can give. For the
\* start of a block in use whose header was constructed it is the header stored
\* there. Everything else is memory the tracker does not own. A block in use that
\* was handed out without a header gives any bytes (an uninitialized read); its
\* header is mapped and writable, the footer byte is looked for behind as many
\* bytes as the size read says and may be unmapped. A block never handed out, a
\* freed block (it is the allocator's, or its next owner's, and may or may not
\* still hold what record_free left, or may have been unmapped) and an address
\* inside or outside a block (payload, or whatever lies there, or nothing) give
\* any bytes, and any access to them may fault.
HeaderSeenAt(this) ==
  IF this \in AllBlocks
    THEN IF heap[this].alloc = "live"
           THEN IF heap[this].canary = Uninit
                  THEN StaleBytes(heap[this], {"read footer"})
                  ELSE {heap[this]}
           ELSE (IF heap[this].canary = Uninit THEN {} ELSE {heap[this]})
                  \cup StaleBytes(heap[this], ReadFaults \cup WriteFaults)
    ELSE StaleBytes(FreshBlock, ReadFaults \cup WriteFaults)

\* The headers record_free(memblock) can read: release() reads the header in front
\* of memblock only past its test of the tracking level.
HeaderSeenByFree(memblock) ==
  IF memblock # NULL /\ level > NMT_minimal
    THEN HeaderSeenAt(malloc_header(memblock))
    ELSE {FreshBlock}

\* The allocator wrapper calls record_free with a user pointer: NULL, the pointer
\* record_malloc returned for a block in use, or the pointer of a block freed before
\* (a double free; a3 says so). seen is the header the call reads in front of the
\* pointer, a2 the header canary it read. A block freed before that passes the
\* check is processed like a block in use, with the fields read. heap keeps what
\* tracker and program wrote: of a header read in memory that is not the
\* tracker's it takes the canary and footer byte release() wrote, not the fields
\* that were only read.
RecordFree(memblock, seen) ==
  /\ outcome = NoOutcome
  /\ memblock = NULL
       \/ \E a \in AllBlocks : heap[a].alloc # "unalloc" /\ memblock = heap[a].user
  /\ seen \in HeaderSeenByFree(memblock)
  /\ LET a == malloc_header(memblock)
         reads == memblock # NULL /\ level > NMT_minimal
         again == memblock # NULL /\ heap[a].alloc = "freed"
         r == record_free(IF reads THEN [Cur EXCEPT !.heap[a] = seen, !.fault = seen.fault]
                          ELSE Cur, memblock)
         h == r.s.heap[a]
         w == IF h = seen THEN heap[a]
              ELSE IF again /\ reads
                THEN [heap[a] EXCEPT !.canary = h.canary, !.footer = h.footer]
              ELSE h
         s == IF memblock = NULL THEN r.s
              ELSE IF r.s.outcome # NoOutcome THEN [r.s EXCEPT !.heap[a] = w]
              ELSE [r.s EXCEPT !.heap[a] = [w EXCEPT !.alloc = "freed", !.site = <<>>]]
     IN Commit(s, "record_free", memblock, IF reads THEN seen.canary ELSE 0,
               IF again THEN 1 ELSE 0, r.ret)

\* The program overwrites the header canary of a block in use.
CorruptCanary(a, v) ==
  /\ outcome = NoOutcome
  /\ heap[a].alloc = "live" /\ heap[a].canary = header_canary_life_mark
  /\ v # header_canary_life_mark
  /\ Commit([Cur EXCEPT !.heap[a].canary = v], "corrupt", a, v, 0, 0)

\* The program overwrites the footer byte of a block in use.
CorruptFooter(a, v) ==
  /\ outcome = NoOutcome
  /\ heap[a].alloc = "live" /\ heap[a].footer = footer_canary_life_mark
  /\ v # footer_canary_life_mark
  /\ Commit([Cur EXCEPT !.heap[a].footer = v], "corrupt", a, v, 0, 0)

\* The program overwrites the size field of the header of a block in use.
CorruptSize(a, v) ==
  /\ outcome = NoOutcome
  /\ heap[a].alloc = "live" /\ heap[a].canary # Uninit
  /\ heap[a].size # v
  /\ Commit([Cur EXCEPT !.heap[a].size = v], "corrupt", a, v, 0, 0)

\* Addresses check_block_integrity() is called on: NULL, an aligned address below
\* K, the raw blocks, and an address four bytes and one eight bytes into each.
CheckAddrs ==
  {NULL, K - sizeof_uint64_t} \cup RawBlocks
    \cup {a + 4 : a \in RawBlocks} \cup {a + sizeof_uint64_t : a \in RawBlocks}

\* The headers check_block_integrity() can read at address this: it reads the
\* header only past its two tests of the address; it reads neither category nor
\* site indices and writes nothing, so these fields are as stored, and no write
\* faults.
HeaderSeenByCheck(this) ==
  IF this < K \/ this % sizeof_uint64_t # 0 THEN {FreshBlock}
  ELSE LET base == IF this \in AllBlocks THEN heap[this] ELSE FreshBlock
       IN {[h EXCEPT !.flags = base.flags, !.bucket = base.bucket, !.pos = base.pos,
                     !.fault = IF @ \in WriteFaults THEN NoFault ELSE @] :
             h \in HeaderSeenAt(this)}

\* check_block_integrity() is called, as a diagnostic, on address this; seen is the
\* header it reads there (a2, a3 and ret: the canary, size and footer byte read;
\* fault: the read that faults).
CheckBlockIntegrity(this, seen) ==
  /\ outcome = NoOutcome
  /\ seen \in HeaderSeenByCheck(this)
  /\ LET chk == check_block_integrity(this, seen)
         s == [Cur EXCEPT !.check = chk, !.trace = <<"check_block_integrity">>,
                          !.fault = seen.fault]
     IN Commit(IF chk # "ok" THEN Halt(s, chk) ELSE s,
               "check_block_integrity", this, seen.canary, seen.size, seen.footer)

\* The tracking level is to change to level to.
Transition(to) ==
  /\ outcome = NoOutcome
  /\ Commit(MemTracker_transition_to(Cur, to), "transition", level, to, 0,
            IF transition(level, to).failed = "none" THEN 1 ELSE 0)

\* MallocMemorySnapshot::make_adjustment() is called.
MakeAdjustment ==
  /\ outcome = NoOutcome /\ level >= NMT_summary
  /\ Commit(make_adjustment(Cur), "make_adjustment", total_arena(snap_arena), 0, 0, 0)

\* The three totals are read.
ReadTotals ==
  /\ outcome = NoOutcome /\ level >= NMT_summary
  /\ Commit(Cur, "totals", total_count(snap_malloc), total_arena(snap_arena), 0,
            total(snap_malloc, tracking_header, snap_arena))

\* MallocMemorySummary::record_new_arena(f): the arena counter's allocate(0).
RecordNewArena(f) ==
  /\ outcome = NoOutcome /\ level >= NMT_summary
  /\ snap_arena[f].count < MaxArena
  /\ Commit([Cur EXCEPT !.ar[f] = allocate(@, 0).c], "record_new_arena", f, 0, 0, 0)

\* MallocMemorySummary::record_arena_free(f): the arena counter's deallocate(0).
RecordArenaFree(f) ==
  /\ outcome = NoOutcome /\ level >= NMT_summary
  /\ snap_arena[f].count > 0
  /\ Commit([Cur EXCEPT !.ar[f] = deallocate(@, 0).c], "record_arena_free", f, 0, 0, 0)

\* MallocMemorySummary::record_arena_size_change(sz, f): the arena counter's resize(sz).
RecordArenaSizeChange(sz, f) ==
  /\ outcome = NoOutcome /\ level >= NMT_summary
  /\ snap_arena[f].count > 0
  /\ snap_arena[f].size + sz \in 0..MaxArena
  /\ Commit([Cur EXCEPT !.ar[f] = resize(@, sz).c], "record_arena_size_change", f, sz, 0, 0)

Init == TrackerInit /\ CounterInit

\* The pointers of the blocks in use.
LivePointers == {heap[a].user : a \in {b \in AllBlocks : heap[b].alloc = "live"}}

\* The tracker under allocation, free and level changes.
Next ==
  \/ \E raw \in {NULL} \cup RawBlocks, size \in Sizes \cup {max_reasonable_malloc_size},
        flags \in Flags, stack \in Stacks, ok \in BOOLEAN :
       RecordMalloc(raw, size, flags, stack, ok)
  \/ \E memblock \in {NULL} \cup {heap[a].user : a \in RawBlocks} :
       \E seen \in HeaderSeenByFree(memblock) : RecordFree(memblock, seen)
  \/ \E to \in Levels : Transition(to)

Spec == Init /\ [][Next]_vars

\* The tracker under allocation, free and level changes, with callers that free
\* every block at most once.
FreeOnceNext ==
  \/ \E raw \in {NULL} \cup RawBlocks, size \in Sizes \cup {max_reasonable_malloc_size},
        flags \in Flags, stack \in Stacks, ok \in BOOLEAN :
       RecordMalloc(raw, size, flags, stack, ok)
  \/ \E memblock \in {NULL} \cup LivePointers :
       \E seen \in HeaderSeenByFree(memblock) : RecordFree(memblock, seen)
  \/ \E to \in Levels : Transition(to)

FreeOnceSpec == Init /\ [][FreeOnceNext]_vars

\* The tracker under allocation, free and corruption of the blocks in use, at a
\* fixed level.
CorruptInit == Init /\ level # NMT_off

CorruptNext ==
  \/ \E raw \in RawBlocks, size \in Sizes, flags \in Flags, stack \in Stacks, ok \in {TRUE} :
       RecordMalloc(raw, size, flags, stack, ok)
  \/ \E memblock \in LivePointers :
       \E seen \in HeaderSeenByFree(memblock) : RecordFree(memblock, seen)
  \/ \E a \in RawBlocks, v \in {header_canary_dead_mark, 0} : CorruptCanary(a, v)
  \/ \E a \in RawBlocks, v \in {footer_canary_dead_mark, 0} : CorruptFooter(a, v)

CorruptSpec == CorruptInit /\ [][CorruptNext]_vars

\* The tracker under allocation, free and lowering of the level, double frees
\* included. The blocks are allocated from one call stack; a second free reads
\* whatever site indices the freed memory gives.
DoubleFreeInit == Init /\ level # NMT_off

DoubleFreeNext ==
  \/ \E raw \in RawBlocks, size \in Sizes, flags \in Flags, stack \in {1}, ok \in {TRUE} :
       RecordMalloc(raw, size, flags, stack, ok)
  \/ \E memblock \in {heap[a].user : a \in RawBlocks} \ {NULL} :
       \E seen \in HeaderSeenByFree(memblock) : RecordFree(memblock, seen)
  \/ \E to \in {NMT_minimal, NMT_summary} : Transition(to)

DoubleFreeSpec == DoubleFreeInit /\ [][DoubleFreeNext]_vars

\* check_block_integrity() on headers in every state of damage, and on memory that
\* holds no header. The check reads neither category nor site indices, so the
\* blocks are of one category and one call stack.
IntegrityInit == Init /\ level # NMT_off

IntegrityNext ==
  \/ \E raw \in RawBlocks, size \in Sizes, flags \in {mtChunk}, stack \in {1}, ok \in {TRUE} :
       RecordMalloc(raw, size, flags, stack, ok)
  \/ \E a \in RawBlocks, v \in {header_canary_dead_mark} : CorruptCanary(a, v)
  \/ \E a \in RawBlocks, v \in {footer_canary_dead_mark} : CorruptFooter(a, v)
  \/ \E a \in RawBlocks, v \in {max_reasonable_malloc_size} : CorruptSize(a, v)
  \/ \E this \in CheckAddrs : \E seen \in HeaderSeenByCheck(this) :
       CheckBlockIntegrity(this, seen)

IntegritySpec == IntegrityInit /\ [][IntegrityNext]_vars

\* The snapshot under allocation, free (every block at most once), arena
\* bookkeeping and reporting, at a tracking level that keeps the summary.
SnapshotInit == Init /\ level = NMT_summary

SnapshotNext ==
  \/ \E raw \in RawBlocks, size \in Sizes, flags \in Flags,
        stack \in Stacks, ok \in {TRUE} :
       RecordMalloc(raw, size, flags, stack, ok)
  \/ \E memblock \in LivePointers :
       \E seen \in HeaderSeenByFree(memblock) : RecordFree(memblock, seen)
  \/ MakeAdjustment
  \/ ReadTotals
  \/ \E f \in Flags : RecordNewArena(f)
  \/ \E f \in Flags : RecordArenaFree(f)
  \/ \E f \in Flags, sz \in {-1, 1} : RecordArenaSizeChange(sz, f)

SnapshotSpec == SnapshotInit /\ [][SnapshotNext]_vars

\* The tracker while it keeps the summary: allocation and free (every block at
\* most once) of several blocks in use at a time, refused registrations, and the
\* level changes that leave the level at summary or detail. The accounting does
\* not look at the call stack, so the blocks are of one call stack.
AccountingInit == Init /\ level >= NMT_summary

AccountingNext ==
  \/ \E raw \in AllBlocks, size \in Sizes, flags \in Flags, stack \in {1}, ok \in BOOLEAN :
       RecordMalloc(raw, size, flags, stack, ok)
  \/ \E memblock \in LivePointers :
       \E seen \in HeaderSeenByFree(memblock) : RecordFree(memblock, seen)
  \/ \E to \in {NMT_summary, NMT_detail} : Transition(to)

AccountingSpec == AccountingInit /\ [][AccountingNext]_vars

\* The counter alone: the tracker stays as initialize(NMT_summary) left it.
CounterSpecInit == Init /\ level = NMT_summary

CounterNext ==
  \/ \E t \in Threads, sz \in CounterSizes : call_allocate(t, sz) /\ UNCHANGED tvars
  \/ \E t \in Threads, sz \in CounterSizes : call_deallocate(t, sz) /\ UNCHANGED tvars
  \/ \E t \in Threads : allocate_add_count(t) /\ UNCHANGED tvars
  \/ \E t \in Threads : allocate_add_size(t) /\ UNCHANGED tvars
  \/ \E t \in Threads : update_peak_size_load(t) /\ UNCHANGED tvars
  \/ \E t \in Threads : update_peak_size_cas(t) /\ UNCHANGED tvars
  \/ \E t \in Threads : update_peak_count_load(t) /\ UNCHANGED tvars
  \/ \E t \in Threads : update_peak_count_cas(t) /\ UNCHANGED tvars
  \/ \E t \in Threads : deallocate_dec_count(t) /\ UNCHANGED tvars
  \/ \E t \in Threads : deallocate_sub_size(t) /\ UNCHANGED tvars

CounterSpec == CounterSpecInit /\ [][CounterNext]_vars

\* The steps thread t takes inside a call it has entered.
ThreadStep(t) ==
  /\ \/ allocate_add_count(t)
     \/ allocate_add_size(t)
     \/ update_peak_size_load(t)
     \/ update_peak_size_cas(t)
     \/ update_peak_count_load(t)
     \/ update_peak_count_cas(t)
     \/ deallocate_dec_count(t)
     \/ deallocate_sub_size(t)
  /\ UNCHANGED tvars

\* The counter with threads that are scheduled fairly: a thread inside a call is
\* not held back for ever.
CounterFairSpec ==
  CounterSpecInit /\ [][CounterNext]_vars /\ \A t \in Threads : WF_vars(ThreadStep(t))


(***************************************************************************)
(* Properties.                                                             *)
(***************************************************************************)

\* No call on the MemoryCounter is in progress.
Quiescent == \A t \in Threads : t_pc[t] = "idle"

\* C1: whenever all record_allocate / record_free calls issued by the threads have
\* completed, count and size equal the net of all calls, and peak_count and
\* peak_size equal the largest value count and size ever held.
C1_NetAndPeak ==
  Quiescent =>
    /\ c_count = g_net[1] /\ c_size = g_net[2]
    /\ c_peak_count = g_max[1] /\ c_peak_size = g_max[2]

\* C1 witness: all calls are done, a free has taken count below a peak of two
\* allocations that were both booked.
C1_Witness ==
  /\ Quiescent /\ g_ops = MaxOps
  /\ c_peak_count = 2 /\ c_count = 1
  /\ c_peak_size = 2 * MaxSize /\ c_size = MaxSize

\* C2: whenever record_free returns, it returns the raw block for which
\* record_malloc returned the pointer it was given: the pointer is raw block +
\* sizeof(MallocHeader), the address returned is pointer - sizeof(MallocHeader).
C2_RoundTrip ==
  (last.op = "record_free" /\ outcome = NoOutcome) =>
    \E a \in RawBlocks :
      /\ heap[a].user = last.a1
      /\ last.a1 = a + sizeof_MallocHeader
      /\ last.ret = a
      /\ last.ret = last.a1 - sizeof_MallocHeader

\* C2 witness: a record_free at level detail has returned a raw block.
C2_Witness ==
  /\ last.op = "record_free" /\ outcome = NoOutcome
  /\ last.ret \in RawBlocks /\ level = NMT_detail /\ last.check = "ok"


IsFatal(o) ==
  o \in {"fatal: invalid block address", "fatal: block address is unaligned",
         "fatal: header canary broken.",
         "fatal: header looks invalid (weirdly large block size)",
         "fatal: footer canary broken"}

\* C3: when check_block_integrity() runs (in record_free) on a block in use whose
\* header canary or footer byte has been overwritten with a value other than the
\* alive pattern, it does not return: the process ends in a fatal error; with the
\* footer byte alone overwritten, the error is "footer canary broken".
C3_CorruptionHalts ==
  [][\A a \in RawBlocks :
       ( /\ heap[a].alloc = "live"
         /\ \/ heap[a].canary # header_canary_life_mark
            \/ heap[a].footer # footer_canary_life_mark
         /\ last'.op = "record_free" /\ last'.a1 = heap[a].user
         /\ last'.check # "none" )
       => /\ last'.check # "ok"
          /\ IsFatal(outcome') /\ outcome' = last'.check
          /\ heap'[a].alloc = "live"
          /\ (heap[a].canary = header_canary_life_mark
                => outcome' = "fatal: footer canary broken")]_vars

\* C3 witness: a block in use with an intact header canary and an overwritten
\* footer byte was freed, and the process ended with "footer canary broken".
C3_Witness ==
  \E a \in RawBlocks :
    /\ heap[a].alloc = "live" /\ last.op = "record_free" /\ last.a1 = heap[a].user
    /\ heap[a].canary = header_canary_life_mark
    /\ heap[a].footer # footer_canary_life_mark
    /\ outcome = "fatal: footer canary broken"

\* C4 as stated: at every tracking level other than off, a second record_free of a
\* block ends in the fatal header-canary error.
C4_Original ==
  (last.op = "record_free" /\ last.a3 = 1) => outcome = "fatal: header canary broken."

\* C4 as amended: at level minimal a second record_free of a block returns
\* normally, its raw address, with nothing checked and nothing changed. With the
\* tracking level at summary or detail, a second record_free that finds the memory
\* in front of the pointer as the first one left it (still mapped, not rewritten),
\* and so reads the header canary the first one left, reads the dead pattern, ends
\* in the fatal header-canary error and changes no counter, no header and no
\* call-site entry.
C4_DoubleFree ==
  /\ [][(last'.op = "record_free" /\ last'.a3 = 1 /\ level >= NMT_summary
           /\ last'.fault # "read _canary"
           /\ last'.a2 = heap[malloc_header(last'.a1)].canary) =>
          /\ last'.a2 = header_canary_dead_mark
          /\ outcome' = "fatal: header canary broken."
          /\ last'.check = "fatal: header canary broken."
          /\ UNCHANGED <<snap_malloc, snap_arena, tracking_header, heap, site_table>>
          /\ last'.tcall = {}]_vars
  /\ [][(last'.op = "record_free" /\ last'.a3 = 1 /\ level = NMT_minimal) =>
          /\ outcome' = NoOutcome /\ last'.check = "none"
          /\ last'.ret = malloc_header(last'.a1)
          /\ UNCHANGED <<snap_malloc, snap_arena, tracking_header, heap, site_table>>
          /\ last'.tcall = {}]_vars

\* C4 witness: a second record_free at level detail read the header as the first
\* one left it, with the dead pattern, and ended in the fatal error.
C4_Witness ==
  /\ last.op = "record_free" /\ last.a3 = 1 /\ level = NMT_detail
  /\ last.fault = NoFault /\ last.a2 = heap[malloc_header(last.a1)].canary
  /\ last.a2 = header_canary_dead_mark
  /\ outcome = "fatal: header canary broken."

\* The sum of f[x] over the set S.
RECURSIVE SumOver(_, _)
SumOver(f, S) ==
  IF S = {} THEN 0
  ELSE LET x == CHOOSE y \in S : TRUE IN f[x] + SumOver(f, S \ {x})

MallocSizes == [f \in Flags |-> snap_malloc[f].size]
MallocCounts == [f \in Flags |-> snap_malloc[f].count]
ArenaSizes == [f \in Flags |-> snap_arena[f].size]

\* C5: in every state of the snapshot, total() is the sum of the categories' malloc
\* sizes plus the size of the tracking-header counter plus total_arena(),
\* total_arena() is the sum of the categories' arena sizes, total_count() is the sum
\* of the categories' malloc counts; reading the three changes no counter.
C5_Totals ==
  /\ [](/\ total_arena(snap_arena) = SumOver(ArenaSizes, Flags)
        /\ total(snap_malloc, tracking_header, snap_arena)
             = SumOver(MallocSizes, Flags) + tracking_header.size
               + SumOver(ArenaSizes, Flags)
        /\ total_count(snap_malloc) = SumOver(MallocCounts, Flags)
        /\ last.op = "totals" =>
             /\ last.a1 = SumOver(MallocCounts, Flags)
             /\ last.a2 = SumOver(ArenaSizes, Flags)
             /\ last.ret = SumOver(MallocSizes, Flags) + tracking_header.size
                             + SumOver(ArenaSizes, Flags))
  /\ [][last'.op = "totals" =>
          UNCHANGED <<snap_malloc, snap_arena, tracking_header, heap, level>>]_vars

\* C5 witness: the totals were read with payload, header overhead and arena bytes
\* all present, the arena bytes in every category.
C5_Witness ==
  /\ last.op = "totals"
  /\ \E f \in Flags : snap_malloc[f].size > 0
  /\ \A f \in Flags : snap_arena[f].size > 0
  /\ tracking_header.size > 0
  /\ last.ret > last.a2 + tracking_header.size

\* C6: when make_adjustment() returns, the size of the chunk category is its size
\* before the call minus total_arena() as it was at the call, taken off once; no
\* other category and no arena counter changes.
C6_Adjustment ==
  [][(last'.op = "make_adjustment" /\ outcome' = NoOutcome) =>
       /\ snap_malloc'[mtChunk].size
            = snap_malloc[mtChunk].size - SumOver(ArenaSizes, Flags)
       /\ last'.a1 = SumOver(ArenaSizes, Flags)
       /\ \A f \in Flags \ {mtChunk} : snap_malloc'[f] = snap_malloc[f]
       /\ UNCHANGED <<snap_arena, tracking_header>>]_vars

\* C6 witness: make_adjustment() returned after taking arena bytes off the chunk
\* category, whose block is still in use.
C6_Witness ==
  /\ last.op = "make_adjustment" /\ outcome = NoOutcome /\ last.a1 > 0
  /\ \E a \in RawBlocks : heap[a].alloc = "live" /\ heap[a].flags = mtChunk
                             /\ snap_malloc[mtChunk].size = heap[a].size - last.a1


\* Every counter of the summary and every entry of the call-site table is zero.
AllZero(m, th, st) ==
  /\ \A f \in Flags : m[f] = ZeroCounter
  /\ th = ZeroCounter
  /\ \A k \in Stacks : st.n[k] = 0

\* C7: at level detail, with all counters at zero, a record_malloc of n bytes in
\* category C whose site registration succeeds leaves category C at count 1 and
\* size n, the header counter at one header, the site registered and stored in the
\* header; the record_free of that block that follows leaves every counter at
\* zero, hands the block's (size, bucket, position) to the call-site table's
\* deallocation_at, and leaves the header canary and the footer byte dead.
C7_AllocateThenFree ==
  /\ [][\A a \in RawBlocks :
          ( /\ level = NMT_detail
            /\ AllZero(snap_malloc, tracking_header, site_table)
            /\ heap[a].alloc # "live" /\ heap'[a].alloc = "live"
            /\ "allocation_at" \in last'.tcall /\ last'.targ[3] )
          => LET n == last'.a2
                 C == last'.a3
                 stack == last'.targ[2]
             IN /\ snap_malloc'[C] = [count |-> 1, size |-> n]
                /\ \A f \in Flags \ {C} : snap_malloc'[f] = ZeroCounter
                /\ tracking_header' = [count |-> 1, size |-> sizeof_MallocHeader]
                /\ site_table'.up /\ site_table'.n[stack] = 1
                /\ heap'[a].bucket = bucket_of(stack) /\ heap'[a].pos = pos_of(stack)
                /\ heap'[a].size = n /\ heap'[a].flags = C
                /\ heap'[a].canary = header_canary_life_mark
                /\ heap'[a].footer = footer_canary_life_mark
                /\ level' = NMT_detail]_vars
  /\ [][\A a \in RawBlocks :
          ( /\ level = NMT_detail
            /\ heap[a].alloc = "live" /\ heap'[a].alloc = "freed"
            /\ snap_malloc[heap[a].flags] = [count |-> 1, size |-> heap[a].size]
            /\ \A f \in Flags \ {heap[a].flags} : snap_malloc[f] = ZeroCounter
            /\ tracking_header = [count |-> 1, size |-> sizeof_MallocHeader] )
          => /\ AllZero(snap_malloc', tracking_header', site_table')
             /\ site_table.n[stack_at(heap[a].bucket, heap[a].pos)] = 1
             /\ last'.tcall = {"deallocation_at"}
             /\ last'.targ = <<heap[a].size, heap[a].bucket, heap[a].pos>>
             /\ heap'[a].canary = header_canary_dead_mark
             /\ heap'[a].footer = footer_canary_dead_mark
             /\ last'.ret = a]_vars

\* C7 witness: at level detail a block of MaxSize bytes was allocated and freed,
\* the table was told, and everything is back at zero with the header dead.
C7_Witness ==
  /\ level = NMT_detail /\ last.op = "record_free" /\ outcome = NoOutcome
  /\ last.tcall = {"deallocation_at"}
  /\ AllZero(snap_malloc, tracking_header, site_table)
  /\ \E a \in RawBlocks :
       /\ heap[a].alloc = "freed" /\ heap[a].size = MaxSize
       /\ last.targ = <<MaxSize, heap[a].bucket, heap[a].pos>>
       /\ heap[a].canary = header_canary_dead_mark

\* C8: when the call-site table refuses the registration during a record_malloc at
\* level detail, the table is shut down and the level becomes summary, the call
\* still returns the user pointer of a tracked block whose header got no site
\* indices; from summary the level does not rise again, and no record_malloc made
\* at summary or below contacts the call-site table.
C8_Degrade ==
  /\ [][\A a \in RawBlocks :
          ( /\ level = NMT_detail
            /\ last'.op = "record_malloc" /\ last'.a1 = a
            /\ "allocation_at" \in last'.tcall /\ ~last'.targ[3] )
          => /\ level' = NMT_summary
             /\ "shutdown" \in last'.tcall /\ ~site_table'.up
             /\ outcome' = NoOutcome
             /\ last'.ret # NULL /\ last'.ret = a + sizeof_MallocHeader
             /\ heap'[a].alloc = "live"
             /\ heap'[a].bucket = Uninit /\ heap'[a].pos = Uninit
             /\ heap'[a].canary = header_canary_life_mark
             /\ heap'[a].size = last'.a2
             /\ snap_malloc'[last'.a3].count = snap_malloc[last'.a3].count + 1]_vars
  /\ [][level <= NMT_summary => level' <= NMT_summary]_vars
  /\ [][(level <= NMT_summary /\ last'.op = "record_malloc") => last'.tcall = {}]_vars

\* C8 witness: the state right after a failed registration: the table was asked
\* and refused, it is shut down, the level is summary and the block was returned.
C8_Witness ==
  /\ last.op = "record_malloc" /\ "allocation_at" \in last.tcall /\ ~last.targ[3]
  /\ "shutdown" \in last.tcall /\ ~site_table.up
  /\ level = NMT_summary /\ last.ret # NULL /\ outcome = NoOutcome
  /\ \E a \in RawBlocks : heap[a].alloc = "live" /\ last.ret = a + sizeof_MallocHeader

\* C9 as stated: transition(from, to) passes its assertions exactly for
\* detail -> summary and detail -> minimal.
C9_Original ==
  last.op = "transition" =>
    (last.ret = 1 <=> (last.a1 = NMT_detail /\ last.a2 \in {NMT_summary, NMT_minimal}))

\* C9 as amended: transition(from, to) passes its assertions exactly when from is
\* summary or detail, to is not off and, for from = detail, to is summary or
\* minimal; a transition with to = off, from = off or from = minimal fails an
\* assertion; over all steps the level never rises, never becomes off and never
\* leaves minimal.
C9_Transitions ==
  /\ [][last'.op = "transition" =>
          LET from == last'.a1
              to == last'.a2
          IN /\ from = level
             /\ last'.ret = 1 <=>
                  /\ from \in {NMT_summary, NMT_detail}
                  /\ to # NMT_off
                  /\ from = NMT_detail => to \in {NMT_summary, NMT_minimal}
             /\ (from = NMT_off \/ to = NMT_off \/ from = NMT_minimal) => last'.ret = 0
             /\ last'.ret = 0 => outcome' # NoOutcome /\ level' = level
             /\ last'.ret = 1 => outcome' = NoOutcome]_vars
  /\ [][/\ level' <= level
        /\ level # NMT_off => level' # NMT_off
        /\ level = NMT_minimal => level' = NMT_minimal]_vars

\* C9 witness: the transition summary -> minimal passed the assertions and the
\* level is minimal.
C9_Witness ==
  /\ last.op = "transition" /\ last.a1 = NMT_summary /\ last.a2 = NMT_minimal
  /\ last.ret = 1 /\ level = NMT_minimal /\ outcome = NoOutcome

\* C10: a record_malloc with a null raw block returns NULL (at every level at
\* which record_malloc may be called) and changes nothing: no header, no counter,
\* no call to the call-site table, whatever the size, category, stack and level.
C10_NullBlock ==
  [][(last'.op = "record_malloc" /\ last'.a1 = NULL) =>
       /\ last'.ret = NULL
       /\ last'.tcall = {} /\ last'.check = "none"
       /\ level # NMT_off => outcome' = NoOutcome
       /\ UNCHANGED <<level, snap_malloc, snap_arena, tracking_header, heap,
                      site_table>>]_vars

\* C10 witness: at level detail, with a block in use and counted, a record_malloc
\* of a null block has returned NULL.
C10_Witness ==
  /\ last.op = "record_malloc" /\ last.a1 = NULL /\ last.ret = NULL
  /\ last.a2 = MaxSize /\ last.a3 = mtChunk
  /\ level = NMT_detail /\ outcome = NoOutcome
  /\ tracking_header.count > 0
  /\ \E a \in RawBlocks : heap[a].alloc = "live"

\* C11: after any sequence of record_malloc, record_free (every block in use freed
\* at most once) and make_adjustment calls every category's count and size, and
\* the count and size of the header-overhead counter, are non-negative, and no
\* decrement takes a counter below zero: no call asks a counter for more than it
\* holds, which the counter answers with a failed assertion.
C11_NoUnderflow ==
  /\ \A f \in Flags : snap_malloc[f].count >= 0 /\ snap_malloc[f].size >= 0
  /\ tracking_header.count >= 0 /\ tracking_header.size >= 0
  /\ outcome \notin {"assert: Nothing allocated yet", "assert: deallocation > allocated"}

\* The positions of a call of allocate (record_allocate).
InAllocate == {"alloc_count", "alloc_size", "ups_load", "ups_cas", "upc_load", "upc_cas"}

\* C12: in every state in which no record_allocate is in progress, peak_count >=
\* count and peak_size >= size; so a peak below the live value is seen only while
\* a record_allocate is in flight, and every record_allocate that returns leaves
\* both peaks at or above the count and the size it produced.
C12_PeakAboveLive ==
  /\ []((\A t \in Threads : t_pc[t] \notin InAllocate) =>
          (c_peak_count >= c_count /\ c_peak_size >= c_size))
  /\ [][\A t \in Threads :
          (t_pc[t] \in InAllocate /\ t_pc'[t] = "idle") =>
            (c_peak_count' >= t_cnt[t] /\ c_peak_size' >= t_sum[t])]_vars

\* C12 witness: both peaks lag the live values while an allocation is in flight
\* and another one has completed.
C12_Witness ==
  /\ c_peak_count < c_count /\ c_peak_size < c_size
  /\ c_peak_count > 0
  /\ \E t \in Threads : t_pc[t] \in InAllocate

\* C13: release() confirms integrity before it touches a statistic. A record_free
\* whose check_block_integrity() fails has changed no counter of the summary, has
\* not contacted the call-site table and has left the header as it was; one whose
\* check passes has made its calls in the order: check, payload counter, header
\* counter, call-site table (at level detail only), mark dead.
C13_CheckFirst ==
  /\ [][(last'.op = "record_free" /\ last'.check \notin {"none", "ok"}) =>
          /\ outcome' = last'.check
          /\ last'.trace = <<"check_block_integrity">>
          /\ last'.tcall = {}
          /\ UNCHANGED <<snap_malloc, snap_arena, tracking_header, site_table, heap>>]_vars
  /\ [][(last'.op = "record_free" /\ last'.check = "ok" /\ outcome' = NoOutcome) =>
          last'.trace =
            IF level = NMT_detail
              THEN <<"check_block_integrity", "record_free", "record_free_malloc_header",
                     "deallocation_at", "mark_block_as_dead">>
              ELSE <<"check_block_integrity", "record_free", "record_free_malloc_header",
                     "mark_block_as_dead">>]_vars

\* C13 witness: at level detail the free of a block with a broken footer byte has
\* ended the process with the block still counted, still registered and its
\* header canary still alive.
C13_Witness ==
  /\ level = NMT_detail /\ last.op = "record_free"
  /\ last.check = "fatal: footer canary broken" /\ outcome = last.check
  /\ tracking_header = [count |-> 1, size |-> sizeof_MallocHeader]
  /\ \E a \in RawBlocks :
       /\ heap[a].alloc = "live" /\ heap[a].canary = header_canary_life_mark
       /\ heap[a].size = MaxSize /\ snap_malloc[heap[a].flags].size = MaxSize
       /\ site_table.n[stack_at(heap[a].bucket, heap[a].pos)] = 1

\* The checks of check_block_integrity() in the order of the claim, each with the
\* outcome it ends in.
IntegrityChecks(this, h) ==
  << <<this < K, "fatal: invalid block address">>,
     <<this % sizeof_uint64_t # 0, "fatal: block address is unaligned">>,
     <<h.canary # header_canary_life_mark, "fatal: header canary broken.">>,
     <<h.size >= max_reasonable_malloc_size,
       "fatal: header looks invalid (weirdly large block size)">>,
     <<h.footer # footer_canary_life_mark, "fatal: footer canary broken">> >>

\* The outcome of the first check of a list that fails; "ok" if none does.
FirstFailure(cs) ==
  IF \E i \in DOMAIN cs : cs[i][1]
    THEN cs[CHOOSE i \in DOMAIN cs : cs[i][1] /\ \A j \in 1..(i - 1) : ~cs[j][1]][2]
    ELSE "ok"

\* The number of checks of the sequence that check_block_integrity() completes on
\* the header h before a read of it faults: the header canary, the size and the
\* footer byte are read by the third, fourth and fifth check.
ChecksMade(h) ==
  IF h.fault = "read _canary" THEN 2
  ELSE IF h.fault = "read _size" THEN 3
  ELSE IF h.fault = "read footer" THEN 4
  ELSE 5

Memory(h) == <<h.size, h.flags, h.bucket, h.pos, h.canary, h.footer>>

\* C15: release() is a no-op while the tracking level is minimal or lower: applied
\* to any block it leaves the tracker as it is; a record_free made at such a level
\* runs no integrity check, changes no counter, does not contact the call-site
\* table and leaves header and footer byte of every block as they were, and at
\* level minimal it returns the raw block address.
C15_ReleaseNoOp ==
  /\ [](level <= NMT_minimal => \A a \in RawBlocks : release(Cur, a) = Cur)
  /\ [][(last'.op = "record_free" /\ last'.a1 # NULL /\ level <= NMT_minimal) =>
          /\ last'.check = "none" /\ last'.trace = <<>> /\ last'.tcall = {}
          /\ UNCHANGED <<level, snap_malloc, snap_arena, tracking_header, site_table>>
          /\ \A a \in RawBlocks : Memory(heap'[a]) = Memory(heap[a])
          /\ level = NMT_minimal =>
               /\ outcome' = NoOutcome
               /\ last'.ret = last'.a1 - sizeof_MallocHeader
               /\ last'.ret \in RawBlocks /\ heap'[last'.ret].alloc = "freed"]_vars

\* C15 witness: a block allocated and counted at a higher level was freed at level
\* minimal: its raw address came back, its header is still alive and it is still
\* counted.
C15_Witness ==
  /\ level = NMT_minimal /\ last.op = "record_free" /\ outcome = NoOutcome
  /\ last.ret \in RawBlocks /\ last.a1 = last.ret + sizeof_MallocHeader
  /\ heap[last.ret].alloc = "freed"
  /\ heap[last.ret].canary = header_canary_life_mark
  /\ heap[last.ret].footer = footer_canary_life_mark
  /\ tracking_header = [count |-> 1, size |-> sizeof_MallocHeader]

\* C16 as stated: after every record_free that returns, at any level at which it
\* may be called, the block's header canary and footer byte hold the dead patterns.
C16_Original ==
  (last.op = "record_free" /\ last.a1 # NULL /\ outcome = NoOutcome) =>
    /\ heap[last.ret].canary = header_canary_dead_mark
    /\ heap[last.ret].footer = footer_canary_dead_mark

\* C16 as amended: after every record_free that returns while the tracking level
\* is summary or detail, the block's header canary and footer byte hold the dead
\* patterns, so that check_block_integrity() on the stale block fails on the
\* header canary; a record_free at level minimal leaves header and footer as they
\* were.
C16_MarkedDead ==
  [][(last'.op = "record_free" /\ last'.a1 # NULL /\ outcome' = NoOutcome) =>
       LET a == last'.ret
       IN /\ a \in RawBlocks /\ heap'[a].alloc = "freed"
          /\ level >= NMT_summary =>
               /\ heap'[a].canary = header_canary_dead_mark
               /\ heap'[a].footer = footer_canary_dead_mark
               /\ check_block_integrity(a, heap'[a]) = "fatal: header canary broken."
          /\ level < NMT_summary => Memory(heap'[a]) = Memory(heap[a])]_vars

\* C16 witness: a record_free at level summary has returned and the stale block
\* carries both dead patterns.
C16_Witness ==
  /\ level = NMT_summary /\ last.op = "record_free" /\ outcome = NoOutcome
  /\ last.ret \in RawBlocks /\ heap[last.ret].alloc = "freed"
  /\ heap[last.ret].canary = header_canary_dead_mark
  /\ heap[last.ret].footer = footer_canary_dead_mark
  /\ check_block_integrity(last.ret, heap[last.ret]) # "ok"

\* Thread t takes a step.
Steps(t) == <<t_pc[t], t_peak[t]>>' # <<t_pc[t], t_peak[t]>>

\* Thread t is at a compare-and-swap that will not store: the field no longer holds
\* the value t read.
SizeCasFails(t) == t_pc[t] = "ups_cas" /\ c_peak_size # t_peak[t]
CountCasFails(t) == t_pc[t] = "upc_cas" /\ c_peak_count # t_peak[t]

\* C17 as stated, in its clause on failure: a compare-and-swap fails only because
\* another thread has changed the peak since the thread read it.
C17_Original ==
  \A t \in Threads : (SizeCasFails(t) \/ CountCasFails(t)) => g_raced[t]

\* C17 as amended: under fair scheduling every call of update_peak_size /
\* update_peak_count returns (the calls of a run being finitely many, all threads
\* end up outside every call for good); on return the stored peak is at least the argument;
\* a compare-and-swap fails only when the stored peak has been raised above the
\* value the thread read, by another thread or by the thread's own compare-and-swap
\* just before (after a compare-and-swap that stores, the loop makes one more pass,
\* whose compare-and-swap fails); a pass that sees a peak at or above the argument
\* leaves the loop and does not store; no step lowers a stored peak.
C17_PeakLoop ==
  /\ <>[](\A t \in Threads : t_pc[t] = "idle")
  /\ [][\A t \in Threads :
          /\ (t_pc[t] \in {"ups_load", "ups_cas"} /\ t_pc'[t] = "upc_load")
               => c_peak_size' >= t_sum[t]
          /\ (t_pc[t] \in {"upc_load", "upc_cas"} /\ t_pc'[t] = "idle")
               => c_peak_count' >= t_cnt[t]
          /\ SizeCasFails(t) =>
               /\ c_peak_size > t_peak[t]
               /\ g_raced[t] \/ c_peak_size = t_sum[t]
          /\ CountCasFails(t) =>
               /\ c_peak_count > t_peak[t]
               /\ g_raced[t] \/ c_peak_count = t_cnt[t]
          /\ (t_pc[t] = "ups_cas" /\ c_peak_size = t_peak[t] /\ Steps(t)) =>
               /\ c_peak_size' = t_sum[t] /\ t_pc'[t] = "ups_cas"
               /\ c_peak_size' # t_peak'[t]
          /\ (t_pc[t] = "upc_cas" /\ c_peak_count = t_peak[t] /\ Steps(t)) =>
               /\ c_peak_count' = t_cnt[t] /\ t_pc'[t] = "upc_cas"
               /\ c_peak_count' # t_peak'[t]
          /\ (SizeCasFails(t) /\ Steps(t) /\ c_peak_size >= t_sum[t]) =>
               (t_pc'[t] = "upc_load" /\ c_peak_size' = c_peak_size)
          /\ (CountCasFails(t) /\ Steps(t) /\ c_peak_count >= t_cnt[t]) =>
               (t_pc'[t] = "idle" /\ c_peak_count' = c_peak_count)
          /\ (t_pc[t] = "ups_load" /\ Steps(t) /\ c_peak_size >= t_sum[t]) =>
               (t_pc'[t] = "upc_load" /\ c_peak_size' = c_peak_size)
          /\ (t_pc[t] = "upc_load" /\ Steps(t) /\ c_peak_count >= t_cnt[t]) =>
               (t_pc'[t] = "idle" /\ c_peak_count' = c_peak_count)]_vars
  /\ [][c_peak_size' >= c_peak_size /\ c_peak_count' >= c_peak_count]_vars

\* C17 witness: a thread has stored its count as the peak while no other thread
\* has touched the peak, and stands before a compare-and-swap that will fail on
\* its own store.
C17_Witness ==
  \E t \in Threads :
    /\ CountCasFails(t) /\ ~g_raced[t]
    /\ c_peak_count = t_cnt[t] /\ t_peak[t] < t_cnt[t]
    /\ \A u \in Threads \ {t} : t_pc[u] = "idle"
    /\ g_ops = 1

\* The blocks in use.
LiveBlocks == {a \in AllBlocks : heap[a].alloc = "live"}

\* C18: while the tracking level is summary or detail (it never rises, so it has
\* been so throughout) and every block is freed at most once, the header-overhead
\* counter holds one header size per block in use and total_count() is the number
\* of blocks in use; every record_free that returns at such a level takes exactly
\* the block's stored size and one count off
\* the block's stored category, exactly one header size and one count off the
\* header-overhead counter, and leaves the other categories as they were.
C18_HeaderAccounting ==
  /\ [](level >= NMT_summary =>
          /\ tracking_header.size = sizeof_MallocHeader * Cardinality(LiveBlocks)
          /\ tracking_header.count = Cardinality(LiveBlocks)
          /\ total_count(snap_malloc) = Cardinality(LiveBlocks))
  /\ [][(last'.op = "record_free" /\ last'.a1 # NULL /\ level >= NMT_summary
           /\ outcome' = NoOutcome) =>
          LET h == heap[last'.ret]
          IN /\ h.alloc = "live"
             /\ snap_malloc'[h.flags] = [count |-> snap_malloc[h.flags].count - 1,
                                         size |-> snap_malloc[h.flags].size - h.size]
             /\ \A f \in Flags \ {h.flags} : snap_malloc'[f] = snap_malloc[f]
             /\ tracking_header' =
                  [count |-> tracking_header.count - 1,
                   size |-> tracking_header.size - sizeof_MallocHeader]]_vars

\* C18 witness: at level summary two blocks of different categories were in use
\* and one of them has been freed: the other, of MaxSize bytes, is still counted
\* in its category, with its header.
C18_Witness ==
  /\ level = NMT_summary /\ outcome = NoOutcome
  /\ last.op = "record_free" /\ last.ret \in AllBlocks
  /\ heap[last.ret].alloc = "freed" /\ heap[last.ret].size = MaxSize
  /\ \E b \in LiveBlocks :
       /\ heap[b].flags # heap[last.ret].flags /\ heap[b].size = MaxSize
       /\ snap_malloc[heap[b].flags] = [count |-> 1, size |-> MaxSize]
       /\ snap_malloc[heap[last.ret].flags] = ZeroCounter
  /\ tracking_header = [count |-> 1, size |-> sizeof_MallocHeader]
  /\ total_count(snap_malloc) = 1

\* C19: the call-site table is only asked to unregister what it registered. With
\* every block freed at most once, a record_free that calls deallocation_at is made
\* at level detail on a block whose header carries the (bucket, position) the table
\* returned when that block was allocated, for a site that still has an allocation
\* booked; a block whose registration was refused, or that was allocated below
\* level detail, is not passed to the table when it is freed; and no such block is
\* in use while the level is detail.
C19_UnregisterRegistered ==
  /\ [][(last'.op = "record_free" /\ "deallocation_at" \in last'.tcall) =>
          LET h == heap[malloc_header(last'.a1)]
          IN /\ level = NMT_detail /\ h.alloc = "live"
             /\ h.site # <<>> /\ h.site = <<h.bucket, h.pos>>
             /\ last'.targ = <<h.size, h.bucket, h.pos>>
             /\ site_table.up /\ site_table.n[stack_at(h.bucket, h.pos)] > 0]_vars
  /\ [][(last'.op = "record_free" /\ last'.a1 # NULL
           /\ heap[malloc_header(last'.a1)].site = <<>>) =>
          "deallocation_at" \notin last'.tcall]_vars
  /\ [](level = NMT_detail => \A a \in RawBlocks : heap[a].alloc = "live" => heap[a].site # <<>>)

\* C19 witness: at level detail a block registered with the call-site table was
\* freed, and the table was handed the indices it had returned for that block.
C19_Witness ==
  /\ last.op = "record_free" /\ outcome = NoOutcome /\ level = NMT_detail
  /\ "deallocation_at" \in last.tcall /\ Len(last.trace) = 5
  /\ last.ret \in RawBlocks /\ heap[last.ret].alloc = "freed"
  /\ last.targ = <<0, heap[last.ret].bucket, heap[last.ret].pos>>
  /\ heap[last.ret].bucket = bucket_of(2) /\ heap[last.ret].pos = pos_of(2)
  /\ site_table.up /\ site_table.n[2] = 0

\* C20: a call of transition(from, to) that passes its assertions shuts the
\* call-site table down exactly when from = detail; a transition from summary
\* leaves the table untouched; every accepted transition returns success; a call
\* that fails an assertion ends the process before the table is reached.
C20_Teardown ==
  /\ [](\A from \in Levels, to \in Levels :
          transition(from, to).shutdown <=>
            (from = NMT_detail /\ transition(from, to).failed = "none"))
  /\ [][last'.op = "transition" =>
          LET from == last'.a1
              accepted == last'.ret = 1
          IN /\ from = level
             /\ ("shutdown" \in last'.tcall) <=> (from = NMT_detail /\ accepted)
             /\ (from = NMT_detail /\ accepted) =>
                  /\ last'.trace = <<"shutdown">>
                  /\ site_table' = [up |-> FALSE, n |-> [k \in Stacks |-> 0]]
             /\ from = NMT_summary => (site_table' = site_table /\ last'.tcall = {})
             /\ ~accepted => (site_table' = site_table /\ outcome' # NoOutcome)
             /\ accepted => outcome' = NoOutcome
             /\ UNCHANGED <<snap_malloc, snap_arena, tracking_header, heap>>]_vars

\* C20 witness: the transition detail -> summary was accepted and has shut the
\* table down while a block registered with it is in use.
C20_Witness ==
  /\ last.op = "transition" /\ last.a1 = NMT_detail /\ last.a2 = NMT_summary
  /\ last.ret = 1 /\ last.tcall = {"shutdown"} /\ outcome = NoOutcome
  /\ level = NMT_summary /\ ~site_table.up
  /\ \E a \in RawBlocks : heap[a].alloc = "live" /\ heap[a].site # <<>>

====
